---- MODULE Spec2Model ----
(***************************************************************************)
(* AudioKitCore::ResonantLowPassFilter                                     *)
(* (AudioKit/Core/AudioKitCore/Common/ResonantLowPassFilter.cpp).          *)
(*                                                                         *)
(* Numbers.  A sample (C++ float) is an integer in -FMax..FMax, or one of  *)
(* the three IEEE specials PInf, NInf, NaN: a miniature float whose finite *)
(* range is FMax and whose precision is one unit.  A coefficient (C++      *)
(* double) is a fixed-point integer counting 1/Scale, or NaN.  Frequencies *)
(* in Hz and resonances in dB are plain integers, or NaN.  sin, cos and    *)
(* pow are computed in that fixed point (Bhaskara's rational sine, a       *)
(* repeated product for the power), so they are approximations of libm     *)
(* but are computed, never tabulated from their arguments.                 *)
(***************************************************************************)
EXTENDS Integers, Sequences, FiniteSets

\* ---------------------------------------------------------------- bounds
\* Largest finite magnitude of the miniature float.
FMax == 9
\* Fixed-point denominator of the doubles.
Scale == 100
\* Longest block handed to the block form of process.
MaxFrames == 3
\* Width in bits of the C++ int counting frames.
IntBits == 3
\* Number of calls made on the filter in one behaviour.
MaxCalls == 3

\* ------------------------------------------------------- IEEE specials
NaN == 1000000
PInf == NaN - 1
NInf == 0 - PInf

IsNaN(x) == x = NaN
IsInf(x) == x = PInf \/ x = NInf
IsFinite(x) == ~IsNaN(x) /\ ~IsInf(x)

\* C++ == and < on floating point: every comparison with a NaN is false.
FEq(a, b) == ~IsNaN(a) /\ ~IsNaN(b) /\ a = b
FLt(a, b) == ~IsNaN(a) /\ ~IsNaN(b) /\ a < b
FGt(a, b) == FLt(b, a)

\* a / b rounded to nearest, halves away from zero (b > 0).
RoundDiv(a, b) ==
    IF a >= 0 THEN (2 * a + b) \div (2 * b)
              ELSE 0 - ((2 * (0 - a) + b) \div (2 * b))

\* IEEE product of a coefficient (finite or NaN) and a tap.
FMul(a, x) ==
    IF IsNaN(a) \/ IsNaN(x) THEN NaN
    ELSE IF IsInf(x) THEN (IF a = 0 THEN NaN
                           ELSE IF (a > 0) = (x = PInf) THEN PInf ELSE NInf)
    ELSE a * x

FNeg(x) == IF IsNaN(x) THEN NaN ELSE IF x = PInf THEN NInf
           ELSE IF x = NInf THEN PInf ELSE 0 - x

\* IEEE sum: inf + -inf is NaN.
FAdd(p, q) ==
    IF IsNaN(p) \/ IsNaN(q) THEN NaN
    ELSE IF IsInf(p) /\ IsInf(q) THEN (IF p = q THEN p ELSE NaN)
    ELSE IF IsInf(p) THEN p
    ELSE IF IsInf(q) THEN q
    ELSE p + q

FSub(p, q) == FAdd(p, FNeg(q))

\* The (float) cast of a double sum counted in 1/Scale: rounds to the float's
\* precision and overflows to an infinity.
ToFloat(d) ==
    IF IsNaN(d) \/ IsInf(d) THEN d
    ELSE LET v == RoundDiv(d, Scale) IN
         IF v > FMax THEN PInf ELSE IF v < 0 - FMax THEN NInf ELSE v

\* ------------------------------------------------------------ <math.h>
\* sin(pi * x), x counted in 1/Scale and 0 <= x <= Scale.
SinPi(x) ==
    LET p == x * (Scale - x) IN (16 * p * Scale) \div (5 * Scale * Scale - 4 * p)

\* cos(pi * x) for 0 <= x <= Scale: sin(pi * (x + 1/2)).
CosPi(x) ==
    IF 2 * x <= Scale THEN SinPi(x + Scale \div 2)
                      ELSE 0 - SinPi(x - Scale \div 2)

\* pow(10.0, e / 20) for an integer e, counted in 1/Scale.
RECURSIVE Pow10(_)
Pow10(e) ==
    IF e = 0 THEN Scale
    ELSE IF e < 0 THEN RoundDiv(Scale * Scale, Pow10(0 - e))
    ELSE IF e >= 20 THEN 10 * Pow10(e - 20)
    ELSE RoundDiv(Pow10(e - 1) * 1122, 1000)

\* ------------------------------------------------------------ constants
kMinCutoffHz == 12
kMinResonance == -20
kMaxResonance == 20

\* ---------------------------------------------------------- input sets
SampleRates == {44100, 48}
Cutoffs == {-1, 11025, NaN}
Resonances == {-30, -1, 100}
Inputs == {4, NaN}
\* What an uninitialised double may hold.
Garbage == {0, Scale, NaN}
\* The caller's source buffers: every sequence of at most MaxFrames inputs.
Buffers == UNION {[1..n -> Inputs] : n \in 0..MaxFrames}
\* The C++ int.
IntMin == 0 - 2^(IntBits - 1)
IntMax == 2^(IntBits - 1) - 1

\* filter: the object's fields.  awaiting: no setParams since the last init.
\* call: the last call made, its arguments and what it returned.
\* calls: how many calls have been made.
VARIABLES filter, awaiting, call, calls
vars == <<filter, awaiting, call, calls>>

Taps(f) == <<f.mX1, f.mX2, f.mY1, f.mY2>>
Coeffs(f) == <<f.mA0, f.mA1, f.mA2, f.mB1, f.mB2>>

\* ---------------------------------------------------------------- init
init(f, sampleRateHz) ==
    [f EXCEPT !.sampleRateHz = sampleRateHz,
              !.mX1 = 0, !.mX2 = 0, !.mY1 = 0,
              !.mLastCutoffHz = -1, !.mLastResonanceDb = -1]

\* ----------------------------------------------------------- setParams
FastPath(f, newCutoffHz, newResonanceDb) ==
    FEq(newCutoffHz, f.mLastCutoffHz) /\ FEq(newResonanceDb, f.mLastResonanceDb)

ClampCutoff(newCutoffHz) ==
    IF FLt(newCutoffHz, kMinCutoffHz) THEN kMinCutoffHz ELSE newCutoffHz

ClampResonance(newResonanceDb) ==
    LET lo == IF FLt(newResonanceDb, kMinResonance) THEN kMinResonance
              ELSE newResonanceDb
    IN  IF FGt(lo, kMaxResonance) THEN kMaxResonance ELSE lo

\* 2.0 * newCutoffHz / sampleRateHz, clipped at 0.99.
NormCutoff(cutoffHz, sampleRateHz) ==
    IF IsNaN(cutoffHz) \/ IsNaN(sampleRateHz) THEN NaN
    ELSE LET c == RoundDiv(2 * cutoffHz * Scale, sampleRateHz) IN
         IF c > (99 * Scale) \div 100 THEN (99 * Scale) \div 100 ELSE c

\* The five coefficients from the clamped parameters.
Coefficients(cutoffHz, resonanceDb, sampleRateHz) ==
    LET cutoff == NormCutoff(cutoffHz, sampleRateHz) IN
    IF IsNaN(cutoff) \/ IsNaN(resonanceDb)
    THEN [mA0 |-> NaN, mA1 |-> NaN, mA2 |-> NaN, mB1 |-> NaN, mB2 |-> NaN]
    ELSE LET r  == Pow10(0 - resonanceDb)
             k  == RoundDiv(r * SinPi(cutoff), 2 * Scale)
             c1 == RoundDiv(Scale * (Scale - k), 2 * (Scale + k))
             c2 == RoundDiv((Scale \div 2 + c1) * CosPi(cutoff), Scale)
             c3 == RoundDiv(Scale \div 2 + c1 - c2, 4)
         IN  [mA0 |-> 2 * c3, mA1 |-> 2 * 2 * c3, mA2 |-> 2 * c3,
              mB1 |-> 2 * (0 - c2), mB2 |-> 2 * c1]

\* setParams as it would be if a recomputation also cleared the history.
setParamsClearingHistory(f, newCutoffHz, newResonanceDb) ==
    IF FastPath(f, newCutoffHz, newResonanceDb) THEN f
    ELSE LET cHz == ClampCutoff(newCutoffHz)
             rDb == ClampResonance(newResonanceDb)
             co  == Coefficients(cHz, rDb, f.sampleRateHz)
         IN  [f EXCEPT !.mLastCutoffHz = cHz, !.mLastResonanceDb = rDb,
                       !.mA0 = co.mA0, !.mA1 = co.mA1, !.mA2 = co.mA2,
                       !.mB1 = co.mB1, !.mB2 = co.mB2,
                       !.mX1 = 0, !.mX2 = 0, !.mY1 = 0, !.mY2 = 0]

setParams(f, newCutoffHz, newResonanceDb) ==
    IF FastPath(f, newCutoffHz, newResonanceDb) THEN f
    ELSE LET cHz == ClampCutoff(newCutoffHz)
             rDb == ClampResonance(newResonanceDb)
             co  == Coefficients(cHz, rDb, f.sampleRateHz)
         IN  [f EXCEPT !.mLastCutoffHz = cHz, !.mLastResonanceDb = rDb,
                       !.mA0 = co.mA0, !.mA1 = co.mA1, !.mA2 = co.mA2,
                       !.mB1 = co.mB1, !.mB2 = co.mB2]

\* ------------------------------------------------- process, one sample
\* (float)(mA0*inputSample + mA1*mX1 + mA2*mX2 - mB1*mY1 - mB2*mY2)
Recurrence(f, inputSample) ==
    ToFloat(FSub(FSub(FAdd(FAdd(FMul(f.mA0, inputSample), FMul(f.mA1, f.mX1)),
                           FMul(f.mA2, f.mX2)),
                      FMul(f.mB1, f.mY1)),
                 FMul(f.mB2, f.mY2)))

\* process as it would be with the two input taps assigned in the other order.
processShiftReversed(f, inputSample) ==
    LET raw == Recurrence(f, inputSample)
        outputSample == IF IsNaN(raw) THEN 0 ELSE raw
    IN  [f   |-> [f EXCEPT !.mX1 = inputSample, !.mX2 = inputSample,
                           !.mY2 = f.mY1, !.mY1 = outputSample],
         out |-> outputSample]

process(f, inputSample) ==
    LET raw == Recurrence(f, inputSample)
        outputSample == IF IsNaN(raw) THEN 0 ELSE raw
    IN  [f   |-> [f EXCEPT !.mX2 = f.mX1, !.mX1 = inputSample,
                           !.mY2 = f.mY1, !.mY1 = outputSample],
         out |-> outputSample]

\* --------------------------------------------------- process, a block
\* Memory is the caller's: cells 1..Len(mem).  A load or store outside it is
\* undefined behaviour; the outcomes modelled are a trap at that access, or a
\* load of the foreign value g and a store that lands in foreign memory.
Load(mem, p, g) == IF p \in DOMAIN mem THEN mem[p] ELSE g
Store(mem, p, v) == IF p \in DOMAIN mem THEN [mem EXCEPT ![p] = v] ELSE mem

\* The block form's recurrence as it would be with mB1*mY1 added, not subtracted.
BlockRecurrenceSignSlip(f, input) ==
    ToFloat(FSub(FAdd(FAdd(FAdd(FMul(f.mA0, input), FMul(f.mA1, f.mX1)),
                           FMul(f.mA2, f.mX2)),
                      FMul(f.mB1, f.mY1)),
                 FMul(f.mB2, f.mY2)))

\* (float)(mA0*input + mA1*mX1 + mA2*mX2 - mB1*mY1 - mB2*mY2)
BlockRecurrence(f, input) ==
    ToFloat(FSub(FSub(FAdd(FAdd(FMul(f.mA0, input), FMul(f.mA1, f.mX1)),
                           FMul(f.mA2, f.mX2)),
                      FMul(f.mB1, f.mY1)),
                 FMul(f.mB2, f.mY2)))

\* The loop body as it would be if the output were stored through destP before
\* the history takes its input from *sourceP.
LoopBodyStoreFirst(s, sourceP, destP, g) ==
    LET raw    == BlockRecurrence(s.f, Load(s.mem, sourceP, g))
        output == IF IsNaN(raw) THEN 0 ELSE raw
        mem    == Store(s.mem, destP, output)
        f      == [s.f EXCEPT !.mX2 = s.f.mX1, !.mX1 = Load(mem, sourceP, g),
                              !.mY2 = s.f.mY1, !.mY1 = output]
    IN  [f   |-> f,
         mem |-> mem,
         run |-> Append(s.run, [rd |-> sourceP, wr |-> destP, raw |-> raw,
                                out |-> output, f |-> f])]

\* One pass of the loop body: *sourceP is loaded, the history shifts, the
\* output is stored through destP.  s holds the filter, the memory and the
\* record of the passes made so far.
LoopBody(s, sourceP, destP, g) ==
    LET input  == Load(s.mem, sourceP, g)
        raw    == BlockRecurrence(s.f, input)
        output == IF IsNaN(raw) THEN 0 ELSE raw
        f      == [s.f EXCEPT !.mX2 = s.f.mX1, !.mX1 = input,
                              !.mY2 = s.f.mY1, !.mY1 = output]
    IN  [f   |-> f,
         mem |-> Store(s.mem, destP, output),
         run |-> Append(s.run, [rd |-> sourceP, wr |-> destP, raw |-> raw,
                                out |-> output, f |-> f])]

\* inFramesToProcess--: decrementing INT_MIN overflows; the two's-complement
\* outcome is INT_MAX.
Decrement(n) == IF n = IntMin THEN IntMax ELSE n - 1

\* while (inFramesToProcess--) { ... }
RECURSIVE Loop(_, _, _, _, _, _)
Loop(s, sourceP, destP, inFramesToProcess, ub, g) ==
    IF inFramesToProcess = 0
    THEN [f |-> s.f, mem |-> s.mem, run |-> s.run, trap |-> FALSE]
    ELSE IF ub = "trap" /\ (sourceP \notin DOMAIN s.mem \/ destP \notin DOMAIN s.mem)
    THEN [f |-> s.f, mem |-> s.mem, run |-> s.run, trap |-> TRUE]
    ELSE Loop(LoopBody(s, sourceP, destP, g), sourceP + 1, destP + 1,
              Decrement(inFramesToProcess), ub, g)

processBlock(f, mem, sourceP, destP, inFramesToProcess, ub, g) ==
    Loop([f |-> f, mem |-> mem, run |-> <<>>], sourceP, destP,
         inFramesToProcess, ub, g)

\* A caller with a source buffer src at cell 1, and the destination either
\* the same buffer (inPlace) or a zeroed buffer of the same length after it.
CallerMem(src, inPlace) ==
    IF inPlace THEN src ELSE src \o [i \in 1..Len(src) |-> 0]
DestBase(src, inPlace) == IF inPlace THEN 1 ELSE Len(src) + 1

\* What the caller sees of a finished call b: the filter, the frames of the
\* destination buffer, and which frames of either buffer the passes touched.
Seen(b, d, n, g) ==
    [f     |-> b.f,
     trap  |-> b.trap,
     run   |-> b.run,
     iters |-> Len(b.run),
     rd    |-> {b.run[i].rd - 1 : i \in 1..Len(b.run)},
     wr    |-> {b.run[i].wr - d : i \in 1..Len(b.run)},
     outs  |-> [i \in 1..(IF n > 0 THEN n ELSE 0) |-> Load(b.mem, d + i - 1, g)]]

BlockCall(f, src, inPlace, n, ub, g) ==
    Seen(processBlock(f, CallerMem(src, inPlace), 1, DestBase(src, inPlace), n, ub, g),
         DestBase(src, inPlace), n, g)

\* ------------------------------------------------------------- actions
NoCall == [op |-> "construct", first |-> FALSE, rep |-> FALSE, fast |-> FALSE,
           c |-> 0, r |-> 0, x |-> 0, raw |-> 0, ret |-> 0,
           n |-> 0, inPlace |-> FALSE, iters |-> 0, rd |-> {}, wr |-> {},
           trap |-> FALSE]

\* The constructor: init(44100.0) on an object whose fields hold garbage.
Init ==
    /\ \E g \in Garbage :
         filter = init([sampleRateHz |-> g, mLastCutoffHz |-> g, mLastResonanceDb |-> g,
                        mX1 |-> g, mX2 |-> g, mY1 |-> g, mY2 |-> g,
                        mA0 |-> g, mA1 |-> g, mA2 |-> g, mB1 |-> g, mB2 |-> g],
                       44100)
    /\ awaiting = TRUE
    /\ call = NoCall
    /\ calls = 0

\* A trapped program makes no further call.
Ready == ~call.trap /\ calls < MaxCalls

BlockRecord(b, n, inPlace) ==
    [NoCall EXCEPT !.op = "processBlock", !.n = n, !.inPlace = inPlace,
                   !.iters = b.iters, !.rd = b.rd, !.wr = b.wr, !.trap = b.trap]

DoInit ==
    /\ Ready
    /\ \E sr \in SampleRates :
        /\ filter' = init(filter, sr)
        /\ awaiting' = TRUE
        /\ call' = [NoCall EXCEPT !.op = "init"]
    /\ calls' = calls + 1

DoSetParams ==
    /\ Ready
    /\ \E c \in Cutoffs, r \in Resonances :
        /\ filter' = setParams(filter, c, r)
        /\ awaiting' = FALSE
        /\ call' = [NoCall EXCEPT !.op = "setParams", !.c = c, !.r = r,
                       !.first = awaiting,
                       !.rep = (call.op = "setParams" /\ call.c = c /\ call.r = r),
                       !.fast = FastPath(filter, c, r)]
    /\ calls' = calls + 1

DoProcess ==
    /\ Ready
    /\ \E x \in Inputs :
        /\ filter' = process(filter, x).f
        /\ call' = [NoCall EXCEPT !.op = "process", !.x = x,
                       !.raw = Recurrence(filter, x),
                       !.ret = process(filter, x).out]
    /\ UNCHANGED awaiting
    /\ calls' = calls + 1

\* process(sourceP, destP, inFramesToProcess) on a buffer of Len(src) frames,
\* in place or into a separate buffer.  No access leaves the buffers.
DoProcessBlock ==
    /\ Ready
    /\ \E src \in Buffers, inPlace \in BOOLEAN :
        LET b == BlockCall(filter, src, inPlace, Len(src), "trap", 0) IN
        /\ filter' = b.f
        /\ call' = BlockRecord(b, Len(src), inPlace)
    /\ UNCHANGED awaiting
    /\ calls' = calls + 1

\* The same call with a negative frame count, on separate buffers of one frame.
DoProcessBlockNegative ==
    /\ Ready
    /\ \E x \in Inputs, ub \in {"trap", "wrap"}, g \in Garbage :
        LET b == BlockCall(filter, <<x>>, FALSE, -1, ub, g) IN
        /\ ub = "trap" => g = 0
        /\ filter' = b.f
        /\ call' = BlockRecord(b, -1, FALSE)
    /\ UNCHANGED awaiting
    /\ calls' = calls + 1

Next == DoInit \/ DoSetParams \/ DoProcess \/ DoProcessBlock \/ DoProcessBlockNegative

Spec == Init /\ [][Next]_vars

\* ================================================================ claims
Zero4 == <<0, 0, 0, 0>>
Derived(c, r, sr) ==
    LET co == Coefficients(ClampCutoff(c), ClampResonance(r), sr)
    IN  <<co.mA0, co.mA1, co.mA2, co.mB1, co.mB2>>

\* A block call whose buffers hold Len(src) frames, as DoProcessBlock makes it.
Block(f, src, inPlace) == BlockCall(f, src, inPlace, Len(src), "trap", 0)

\* src fed through the single-sample form, one call per sample.
RECURSIVE SampleRun(_, _)
SampleRun(f, src) ==
    IF src = <<>> THEN [f |-> f, outs |-> <<>>]
    ELSE LET h == SampleRun(f, SubSeq(src, 1, Len(src) - 1))
             p == process(h.f, src[Len(src)])
         IN  [f |-> p.f, outs |-> Append(h.outs, p.out)]

\* Two filters respond alike: same coefficients, same history, same next output.
SameResponse(f1, f2) ==
    /\ Coeffs(f1) = Coeffs(f2)
    /\ Taps(f1) = Taps(f2)
    /\ \A x \in Inputs : process(f1, x).out = process(f2, x).out

\* ---- C1: after init(sampleRateHz) the four history taps are all zero, so the
\* first process call returns a0*input.
C1_InitZeroesAllTaps ==
    call.op = "init" =>
        /\ Taps(filter) = Zero4
        /\ \A x \in Inputs :
             ~IsNaN(FMul(filter.mA0, x)) =>
                 process(filter, x).out = ToFloat(FMul(filter.mA0, x))

\* ---- C2: the first setParams after init (or construction) never takes the
\* fast path, whatever its arguments, and leaves the coefficients derived from
\* the clamped arguments and the current sample rate.
C2_FirstSetParamsRecomputes ==
    (call.op = "setParams" /\ call.first) =>
        /\ ~call.fast
        /\ Coeffs(filter) = Derived(call.c, call.r, filter.sampleRateHz)

\* ---- C3: a setParams(c, r) that recomputes memoizes the raw c and r, so that
\* the same call made again would take the fast path.
C3_MemoizesRawArguments ==
    (call.op = "setParams" /\ ~call.fast) =>
        /\ filter.mLastCutoffHz = call.c
        /\ filter.mLastResonanceDb = call.r
        /\ FastPath(filter, call.c, call.r)

\* ---- C4: from any state, setParams(c, r) with c < 12 leaves the filter
\* responding as setParams(12, r) does, with r > 20 as setParams(c, 20) does,
\* and with r < -20 as setParams(c, -20) does.
C4_ClampedCallsAgree ==
    Ready =>
        \A c \in Cutoffs, r \in Resonances :
            /\ FLt(c, kMinCutoffHz) =>
                 SameResponse(setParams(filter, c, r),
                              setParams(filter, kMinCutoffHz, r))
            /\ FGt(r, kMaxResonance) =>
                 SameResponse(setParams(filter, c, r),
                              setParams(filter, c, kMaxResonance))
            /\ FLt(r, kMinResonance) =>
                 SameResponse(setParams(filter, c, r),
                              setParams(filter, c, kMinResonance))

\* ---- C5: no setParams call changes the history taps or the sample rate, and
\* a setParams call that repeats the arguments of the setParams call just
\* before it leaves the five coefficients as they were.
C5_RepeatedSetParamsIdempotent ==
    [][call'.op = "setParams" =>
          /\ Taps(filter') = Taps(filter)
          /\ filter'.sampleRateHz = filter.sampleRateHz
          /\ call'.rep => Coeffs(filter') = Coeffs(filter)]_vars

C5_Witness ==
    /\ call.op = "setParams" /\ call.rep /\ ~call.fast
    /\ Taps(filter) # Zero4
    /\ ~IsNaN(filter.mA0) /\ filter.mA0 # 0

\* ---- C6: from any state and for any input sequence, one block call, one
\* single-sample call per sample, and two consecutive block calls over any
\* split of the sequence give the same outputs and the same final filter.
C6_PartitionIndependent ==
    Ready =>
        \A src \in Buffers :
            LET whole == Block(filter, src, FALSE)
                single == SampleRun(filter, src)
            IN  /\ whole.outs = single.outs
                /\ whole.f = single.f
                /\ \A k \in 0..Len(src) :
                     LET head == Block(filter, SubSeq(src, 1, k), FALSE)
                         tail == Block(head.f, SubSeq(src, k + 1, Len(src)), FALSE)
                     IN  /\ head.outs \o tail.outs = whole.outs
                         /\ tail.f = whole.f

C6_Witness ==
    /\ call.op = "processBlock" /\ call.n = MaxFrames /\ ~call.inPlace
    /\ IsFinite(filter.mY1) /\ filter.mY1 # 0
    /\ IsFinite(filter.mY2) /\ filter.mY2 # 0 /\ filter.mY2 # filter.mY1
    /\ filter.mX1 = 4 /\ filter.mX2 = 4

\* ---- C7: a recurrence that evaluates to NaN returns 0.0 and shifts 0.0 into
\* y1; y1 and y2 hold no NaN after any process call, of either form.
C7_NoNaNAfterProcess ==
    /\ call.op \in {"process", "processBlock"} =>
         ~IsNaN(filter.mY1) /\ ~IsNaN(filter.mY2)
    /\ (call.op = "process" /\ IsNaN(call.raw)) =>
         call.ret = 0 /\ filter.mY1 = 0

\* The part of C7 that is about the guard alone: in every pass of either form
\* a NaN recurrence returns, stores and shifts 0.0, and y1 is never NaN.
C7_GuardReplacesNaN ==
    /\ ~IsNaN(filter.mY1)
    /\ (call.op = "process" /\ IsNaN(call.raw)) =>
         call.ret = 0 /\ filter.mY1 = 0
    /\ Ready =>
         \A src \in Buffers :
             LET b == Block(filter, src, FALSE) IN
             \A i \in 1..Len(src) :
                 /\ ~IsNaN(b.run[i].f.mY1)
                 /\ ~IsNaN(b.run[i].f.mY2)
                 /\ IsNaN(b.run[i].raw) =>
                      b.outs[i] = 0 /\ b.run[i].f.mY1 = 0

\* ---- C8: the block form makes exactly frameCount passes (none when
\* frameCount is not positive), reads source[0..frameCount-1], writes
\* dest[0..frameCount-1], touches nothing else, and returns.
C8_ExactlyFrameCountPasses ==
    call.op = "processBlock" =>
        /\ ~call.trap
        /\ call.iters = (IF call.n > 0 THEN call.n ELSE 0)
        /\ call.rd = 0..(call.n - 1)
        /\ call.wr = 0..(call.n - 1)

\* ---- C9: a block call made in place gives the outputs and the final filter
\* of the same call made with a separate destination buffer.
C9_InPlaceAgrees ==
    Ready =>
        \A src \in Buffers :
            LET inPlace == Block(filter, src, TRUE)
                apart   == Block(filter, src, FALSE)
            IN  /\ inPlace.outs = apart.outs
                /\ inPlace.f = apart.f
                /\ ~inPlace.trap
                /\ inPlace.rd = inPlace.wr

C9_Witness ==
    /\ call.op = "processBlock" /\ call.inPlace /\ call.n = MaxFrames
    /\ call.rd = 0..(MaxFrames - 1) /\ call.wr = call.rd
    /\ IsFinite(filter.mY1) /\ filter.mY1 # 0 /\ filter.mY1 # filter.mX1
    /\ filter.mX1 = 4

\* What one processed sample must leave: the history one step on, the rest
\* of the filter as it was.
Shifted(f, input, output) ==
    [f EXCEPT !.mX1 = input, !.mX2 = f.mX1, !.mY1 = output, !.mY2 = f.mY1]

\* ---- C10: each processed sample, in either form, leaves x1 the input, x2
\* the old x1, y1 the output returned, y2 the old y1, and every other field
\* (coefficients, memoized parameters, sample rate) unchanged.
C10_OneStepShift ==
    Ready =>
        /\ \A x \in Inputs :
             process(filter, x).f = Shifted(filter, x, process(filter, x).out)
        /\ \A src \in Buffers :
             LET b == Block(filter, src, FALSE) IN
             \A i \in 1..Len(src) :
                 /\ b.run[i].out = b.outs[i]
                 /\ b.run[i].f = Shifted(IF i = 1 THEN filter ELSE b.run[i - 1].f,
                                         src[i], b.outs[i])

C10_Witness ==
    /\ call.op = "process" /\ call.x = 4
    /\ filter.mX1 = 4 /\ filter.mX2 = 4
    /\ filter.mY1 = call.ret /\ IsFinite(filter.mY1) /\ filter.mY1 # 0
    /\ IsFinite(filter.mY2) /\ filter.mY2 # 0 /\ filter.mY2 # filter.mY1
    /\ ~awaiting
====
